---- MODULE Spec2Model ----
(***************************************************************************)
(* Model of ZumoMotors/examples/CompassExample/CompassExample.ino:         *)
(* magnetometer calibration in setup(), the heading computation, and the   *)
(* closed-loop 90-degree turn controller in loop().                        *)
(*                                                                         *)
(* Numbers.  The target is an 8-bit AVR: int is 16 bits wide.  LSM303::    *)
(* vector holds floats; every float the program forms from the bounded     *)
(* inputs used here is a small multiple of 1/10 and is represented         *)
(* exactly as an integer number of tenths where a tenth can occur (the     *)
(* averaged vector), and as an integer otherwise.  The z axis is never     *)
(* read by the program and is left out.                                    *)
(***************************************************************************)
EXTENDS Integers, Sequences, FiniteSets

VARIABLES
    pc,               \* position in setup() / loop() / averageHeading()
    index,            \* setup: unsigned char index
    running_min,      \* setup: running_min (x, y)
    running_max,      \* setup: running_max (x, y)
    m_min,            \* compass.m_min (x, y)
    m_max,            \* compass.m_max (x, y)
    motors,           \* speeds last commanded to the driver: <<left, right>>
    target_heading,   \* loop: static int target_heading
    target_init,      \* loop: TRUE once the static initialiser has run
    caller,           \* averageHeading: the call site to return to
    i,                \* averageHeading: loop counter
    avg,              \* averageHeading: avg (x, y), the running sum
    cur_heading,      \* loop: local int heading
    relative_heading, \* loop: local int relative_heading
    speed,            \* loop: local int speed
    cmd,              \* history: which statement issued the last motor command
    settled,          \* history: a delay or wait has elapsed since that command
    samples,          \* history: the readings taken by the calibration loop
    branch            \* history: the branch the current cycle took

vars == <<pc, index, running_min, running_max, m_min, m_max, motors,
          target_heading, target_init, caller, i, avg, cur_heading,
          relative_heading, speed, cmd, settled, samples, branch>>

---------------------------------------------------------------------------
(* Program constants. *)

SPEED == 200
CALIBRATION_SAMPLES == 70
DEVIATION_THRESHOLD == 5
AVERAGE_SAMPLES == 10
MIN_TURN_SPEED == 100
QUARTER_TURN == 90
FULL_TURN == 360
HALF_TURN == 180
RUNNING_MIN_INIT == 2047
RUNNING_MAX_INIT == -2048
INT_BITS == 16
UCHAR_MOD == 256

(* Bounds of the model. *)

\* Magnitude of the magnetic field components the sensor reports.
FieldMag == 1
\* Largest magnitude of the calibration bounds and of the averaged vector's
\* components drawn when heading() is exercised on its own.
MaxCoord == 2

---------------------------------------------------------------------------
(* Integer arithmetic of the target. *)

Abs(n) == IF n < 0 THEN -n ELSE n

\* C division and remainder truncate toward zero (b > 0 here).
CDiv(a, b) == IF a >= 0 THEN a \div b ELSE -((-a) \div b)
CRem(a, b) == a - b * CDiv(a, b)

IntMod == 2 ^ INT_BITS
INT_MAX == (IntMod \div 2) - 1
INT_MIN == -(IntMod \div 2)
FitsInt(n) == INT_MIN <= n /\ n <= INT_MAX
\* Two's-complement wraparound of a 16-bit int.
Wrap16(n) == ((n - INT_MIN) % IntMod) + INT_MIN

RECURSIVE GCD(_, _)
GCD(a, b) == IF b = 0 THEN a ELSE GCD(b, a % b)

Vec(x, y) == [x |-> x, y |-> y]
Min(a, b) == IF a < b THEN a ELSE b
Max(a, b) == IF a > b THEN a ELSE b

---------------------------------------------------------------------------
(* heading(): lines 187-196. *)

\* atan2() and the Arduino round() macro,
\*   round(x) = ((x) >= 0 ? (long)((x) + 0.5) : (long)((x) - 0.5)),
\* on exact rationals.  An angle of the first octant rounds to the number
\* of half-degree marks k - 1/2 (k = 1..45) that its tangent lies above.
\* TanHalfDeg[k] = ceiling(10^8 * tan((k - 1/2) deg)); tan((k - 1/2) deg)
\* is irrational, so no vector of integers lies on a mark and the macro's
\* rounding of ties is never exercised.  For the vectors and bounds drawn
\* in this module every angle is at least 1e-4 degrees away from a mark,
\* several units in the last place of a float, so the float computation
\* rounds to the same degree as the exact one.
TanHalfDeg ==
    <<   872687,  2618593,  4366095,  6116263,  7870171,  9628905,
       11393561, 13165250, 14945101, 16734261, 18533905, 20345230,
       22169467, 24007876, 25861759, 27732455, 29621350, 31529879,
       33459532, 35411858, 37388468, 39391048, 41421357, 43481238,
       45572626, 47697554, 49858161, 52056706, 54295570, 56577278,
       58904502, 61280079, 63707027, 66188557, 68728096, 71329307,
       73996108, 76732699, 79543592, 82433639, 85408069, 88472527,
       91633118, 94896457, 98269727 >>

\* floor(10^8 * y / x) for 0 <= y <= x, x > 0, by long division in two
\* steps of four digits (every intermediate stays below 2^31).
TanDigits == 10000
TanOf(y, x) ==
    LET a == y * TanDigits
    IN  (a \div x) * TanDigits + ((a % x) * TanDigits) \div x

\* round(atan(y / x) in degrees) for 0 <= y <= x, x > 0: 0..45.  The
\* tangent t is bound by a set constructor so that it is computed once.
OctantDeg(y, x) ==
    Cardinality(UNION {{k \in 1..Len(TanHalfDeg) : t >= TanHalfDeg[k]} :
                       t \in {TanOf(y, x)}})

\* round(atan2(|y|, |x|) in degrees): 0..90.
QuadrantDeg(ay, ax) ==
    IF ay <= ax THEN OctantDeg(ay, ax) ELSE QUARTER_TURN - OctantDeg(ax, ay)

\* round(atan2(y, x) * 180 / M_PI) for finite y and x: -180..180.
\* atan2(0, 0) is 0 and atan2(0, x < 0) is +pi (the zeros formed by
\* "... - 1.0" are positive zeros).
RoundAtan2Deg(y, x) ==
    IF x = 0 /\ y = 0 THEN 0
    ELSE LET g  == GCD(Abs(y), Abs(x))
             ay == Abs(y) \div g
             ax == Abs(x) \div g
             q  == QuadrantDeg(ay, ax)
             a  == IF x < 0 THEN HALF_TURN - q ELSE q
         IN  IF y < 0 THEN -a ELSE a

\* One scaled axis, lines 189-190:
\*   2.0*(float)(v - lo) / (hi - lo) - 1.0
\* v is in tenths (FIX = 10, the divisor of lines 224-225), lo and hi are
\* whole.  A zero divisor gives the float quotient of a division by zero:
\* an infinity, or NaN for 0/0.
FIX == 10
Scaled(v, lo, hi) ==
    LET num == 2 * (v - FIX * lo)
        den == FIX * (hi - lo)
    IN  IF den > 0 THEN [k |-> "fin", n |-> num - den, d |-> den]
        ELSE IF den < 0 THEN [k |-> "fin", n |-> den - num, d |-> -den]
        ELSE IF num > 0 THEN [k |-> "pinf", n |-> 1, d |-> 0]
        ELSE IF num < 0 THEN [k |-> "ninf", n |-> -1, d |-> 0]
        ELSE [k |-> "nan", n |-> 0, d |-> 0]

\* The int a NaN is converted to by "(long)(NaN - 0.5)" and the narrowing
\* to int: the conversion is undefined; the AVR float libraries return 0,
\* LONG_MIN or LONG_MAX, whose low 16 bits are 0, 0 and -1.
NaNToInt == {0, -1}

\* int angle = round(atan2(y_scaled, x_scaled)*180 / M_PI): the values the
\* build can produce.
RoundedAngles(ys, xs) ==
    IF ys.k = "nan" \/ xs.k = "nan" THEN NaNToInt
    ELSE IF ys.k = "fin" /\ xs.k = "fin"
         THEN {RoundAtan2Deg(ys.n * xs.d, xs.n * ys.d)}
    ELSE IF ys.k = "fin"
         THEN {RoundAtan2Deg(0, xs.n) * (IF ys.n < 0 THEN -1 ELSE 1)}
    ELSE IF xs.k = "fin"
         THEN {RoundAtan2Deg(ys.n, 0)}
    \* both infinite: the IEEE diagonal, or NaN from inf/inf inside atan2
    ELSE {RoundAtan2Deg(ys.n, xs.n)} \cup NaNToInt

\* Variant of NormalizeAngle: "angle <= 0" in place of "angle < 0".
NormalizeAngle_Inclusive(angle) ==
    IF angle <= 0 THEN angle + FULL_TURN ELSE angle

\* Lines 193-195.
NormalizeAngle(angle) == IF angle < 0 THEN angle + FULL_TURN ELSE angle

\* Variant of heading: atan2(x_scaled, y_scaled), the arguments exchanged.
heading_SwappedAxes(v, lo, hi) ==
    LET x_scaled == Scaled(v.x, lo.x, hi.x)
        y_scaled == Scaled(v.y, lo.y, hi.y)
    IN  {NormalizeAngle(angle) : angle \in RoundedAngles(x_scaled, y_scaled)}

\* int heading(LSM303::vector v): the set of values the call can return
\* (one value whenever both calibration ranges are non-degenerate).
heading(v, lo, hi) ==
    LET x_scaled == Scaled(v.x, lo.x, hi.x)
        y_scaled == Scaled(v.y, lo.y, hi.y)
    IN  {NormalizeAngle(angle) : angle \in RoundedAngles(y_scaled, x_scaled)}

---------------------------------------------------------------------------
(* relativeHeading(): lines 199-210. *)

\* Variant of relativeHeading: the difference is returned unwrapped.
relativeHeading_NoWrap(heading_from, heading_to) == heading_to - heading_from

\* Variant of relativeHeading: ">= 180" in place of "> 180".
relativeHeading_HalfOpen(heading_from, heading_to) ==
    LET d0 == heading_to - heading_from
        d1 == IF d0 >= HALF_TURN THEN d0 - FULL_TURN ELSE d0
        d2 == IF d1 < -HALF_TURN THEN d1 + FULL_TURN ELSE d1
    IN  d2

\* Variant of relativeHeading: the difference is taken the other way round
\* (heading_from - heading_to).
relativeHeading_Reversed(heading_from, heading_to) ==
    LET d0 == heading_from - heading_to
        d1 == IF d0 > HALF_TURN THEN d0 - FULL_TURN ELSE d0
        d2 == IF d1 < -HALF_TURN THEN d1 + FULL_TURN ELSE d1
    IN  d2

relativeHeading(heading_from, heading_to) ==
    LET d0 == heading_to - heading_from
        d1 == IF d0 > HALF_TURN THEN d0 - FULL_TURN ELSE d0
        d2 == IF d1 < -HALF_TURN THEN d1 + FULL_TURN ELSE d1
    IN  d2

---------------------------------------------------------------------------
(* The TURNING branch's speed: lines 163-168. *)

\* SPEED*relative_heading/180 in 16-bit int arithmetic.  A product outside
\* the int range is a signed overflow (undefined): the machine multiply
\* wraps, and a build that simplifies the expression on the assumption of
\* no overflow yields the mathematical quotient.
ScaledSpeeds(rel) ==
    IF FitsInt(SPEED * rel) THEN {CDiv(SPEED * rel, HALF_TURN)}
    ELSE {CDiv(Wrap16(SPEED * rel), HALF_TURN), CDiv(SPEED * rel, HALF_TURN)}

\* Variant of AddMinimum: SPEED is added in place of the minimum of 100.
AddMinimum_FullSpeed(s) == IF s < 0 THEN s - SPEED ELSE s + SPEED

\* if (speed < 0) speed -= 100; else speed += 100;
AddMinimum(s) == IF s < 0 THEN s - MIN_TURN_SPEED ELSE s + MIN_TURN_SPEED

TurnSpeeds(rel) == {AddMinimum(s) : s \in ScaledSpeeds(rel)}

\* Variant of OnTarget: "<=" in place of "<".
OnTarget_Inclusive(rel) == Abs(rel) <= DEVIATION_THRESHOLD

\* abs(relative_heading) < DEVIATION_THRESHOLD, line 137.
OnTarget(rel) == Abs(rel) < DEVIATION_THRESHOLD

\* Variant of NextTarget: the "% 360" is missing.
NextTarget_NoWrap(h) == h + QUARTER_TURN

\* (averageHeading() + 90) % 360, line 154.
NextTarget(h) == CRem(h + QUARTER_TURN, FULL_TURN)

---------------------------------------------------------------------------
(* The sensor: compass.read() stores one magnetic vector in compass.m.     *)
(* While the robot spins through calibration the field points along any of *)
(* the four axis directions; in the control loop it points along +x or +y  *)
(* (ten such readings average to eleven directions of one quadrant, which  *)
(* the calibration bounds spread over the circle).  Magnitude: FieldMag.   *)

Readings ==
    { Vec(FieldMag, 0), Vec(0, FieldMag), Vec(-FieldMag, 0), Vec(0, -FieldMag) }

LoopReadings == { Vec(FieldMag, 0), Vec(0, FieldMag) }

ZeroVec == Vec(0, 0)
Stopped == <<0, 0>>

---------------------------------------------------------------------------
(* setup(): lines 41-116. *)

Init ==
    /\ pc = "wait_button_1"
    /\ index = 0
    /\ running_min = Vec(RUNNING_MIN_INIT, RUNNING_MIN_INIT)
    /\ running_max = Vec(RUNNING_MAX_INIT, RUNNING_MAX_INIT)
    /\ m_min = ZeroVec
    /\ m_max = ZeroVec
    /\ motors = Stopped
    /\ target_heading = 0
    /\ target_init = FALSE
    /\ caller = "none"
    /\ i = 0
    /\ avg = ZeroVec
    /\ cur_heading = 0
    /\ relative_heading = 0
    /\ speed = 0
    /\ cmd = "none"
    /\ settled = TRUE
    /\ samples = {}
    /\ branch = "none"

\* Line 67: button.waitForButton().
WaitButton1 ==
    /\ pc = "wait_button_1"
    /\ pc' = "cal_left"
    /\ UNCHANGED <<index, running_min, running_max, m_min, m_max, motors,
                   target_heading, target_init, caller, i, avg, cur_heading,
                   relative_heading, speed, cmd, settled, samples, branch>>

\* Line 74: motors.setLeftSpeed(SPEED).
CalSetLeft ==
    /\ pc = "cal_left"
    /\ motors' = <<SPEED, motors[2]>>
    /\ cmd' = "cal_rotate"
    /\ settled' = FALSE
    /\ pc' = "cal_right"
    /\ UNCHANGED <<index, running_min, running_max, m_min, m_max,
                   target_heading, target_init, caller, i, avg, cur_heading,
                   relative_heading, speed, samples, branch>>

\* Variant of CalSetRight: motors.setRightSpeed(SPEED), the sign of the
\* right speed lost, so that the robot drives forward while it samples.
CalSetRight_Forward ==
    /\ pc = "cal_right"
    /\ motors' = <<motors[1], SPEED>>
    /\ cmd' = "cal_rotate"
    /\ settled' = FALSE
    /\ index' = 0
    /\ pc' = "cal_loop"
    /\ UNCHANGED <<running_min, running_max, m_min, m_max,
                   target_heading, target_init, caller, i, avg, cur_heading,
                   relative_heading, speed, samples, branch>>

\* Lines 75, 77: motors.setRightSpeed(-SPEED); index = 0.
CalSetRight ==
    /\ pc = "cal_right"
    /\ motors' = <<motors[1], -SPEED>>
    /\ cmd' = "cal_rotate"
    /\ settled' = FALSE
    /\ index' = 0
    /\ pc' = "cal_loop"
    /\ UNCHANGED <<running_min, running_max, m_min, m_max,
                   target_heading, target_init, caller, i, avg, cur_heading,
                   relative_heading, speed, samples, branch>>

\* Variant of UpdateMin: the y line compares with compass.m.x.
UpdateMin_CopyPaste(lo, r) == Vec(Min(lo.x, r.x), Min(lo.y, r.x))

\* Lines 82-86: the running minimum and maximum after reading r.
UpdateMin(lo, r) == Vec(Min(lo.x, r.x), Min(lo.y, r.y))
UpdateMax(hi, r) == Vec(Max(hi.x, r.x), Max(hi.y, r.y))

\* Lines 77-91: one iteration of the calibration loop, reading r.
CalSample ==
    /\ pc = "cal_loop"
    /\ index < CALIBRATION_SAMPLES
    /\ \E r \in Readings :
          /\ running_min' = UpdateMin(running_min, r)
          /\ running_max' = UpdateMax(running_max, r)
          /\ samples' = samples \cup {r}
    /\ index' = (index + 1) % UCHAR_MOD
    /\ settled' = TRUE
    /\ UNCHANGED <<pc, m_min, m_max, motors, target_heading, target_init,
                   caller, i, avg, cur_heading, relative_heading, speed,
                   cmd, branch>>

\* Line 77 (loop exit) and line 93: motors.setLeftSpeed(0).
CalStopLeft ==
    /\ pc = "cal_loop"
    /\ ~(index < CALIBRATION_SAMPLES)
    /\ motors' = <<0, motors[2]>>
    /\ cmd' = "cal_stop"
    /\ settled' = FALSE
    /\ pc' = "cal_stop_right"
    /\ UNCHANGED <<index, running_min, running_max, m_min, m_max,
                   target_heading, target_init, caller, i, avg, cur_heading,
                   relative_heading, speed, samples, branch>>

\* Line 94: motors.setRightSpeed(0).
CalStopRight ==
    /\ pc = "cal_stop_right"
    /\ motors' = <<motors[1], 0>>
    /\ cmd' = "cal_stop"
    /\ settled' = FALSE
    /\ pc' = "cal_store"
    /\ UNCHANGED <<index, running_min, running_max, m_min, m_max,
                   target_heading, target_init, caller, i, avg, cur_heading,
                   relative_heading, speed, samples, branch>>

\* Lines 110-113: compass.m_max and compass.m_min take the running values.
CalStore ==
    /\ pc = "cal_store"
    /\ m_max' = running_max
    /\ m_min' = running_min
    /\ pc' = "wait_button_2"
    /\ UNCHANGED <<index, running_min, running_max, motors,
                   target_heading, target_init, caller, i, avg, cur_heading,
                   relative_heading, speed, cmd, settled, samples, branch>>

\* Lines 115-116: button.waitForButton(); setup() returns and loop() is
\* entered for the first time.
WaitButton2 ==
    /\ pc = "wait_button_2"
    /\ settled' = TRUE
    /\ pc' = "loop_entry"
    /\ UNCHANGED <<index, running_min, running_max, m_min, m_max, motors,
                   target_heading, target_init, caller, i, avg, cur_heading,
                   relative_heading, speed, cmd, samples, branch>>

---------------------------------------------------------------------------
(* averageHeading(): lines 214-229. *)

\* Line 216 on entry from call site c: avg = {0, 0, 0}, i = 0.
EnterAverage(c) ==
    /\ caller' = c
    /\ avg' = ZeroVec
    /\ i' = 0
    /\ pc' = "avg_loop"

\* AverageRead with a running recalibration: each read of the control loop
\* also widens compass.m_min / compass.m_max, as the loop of setup() does
\* for running_min / running_max.
AverageRead_Recalibrates ==
    /\ pc = "avg_loop"
    /\ i < AVERAGE_SAMPLES
    /\ \E r \in LoopReadings :
        /\ avg' = Vec(avg.x + r.x, avg.y + r.y)
        /\ m_min' = UpdateMin(m_min, r)
        /\ m_max' = UpdateMax(m_max, r)
    /\ i' = i + 1
    /\ UNCHANGED <<pc, index, running_min, running_max, motors,
                   target_heading, target_init, caller, cur_heading,
                   relative_heading, speed, cmd, settled, samples, branch>>

\* AverageRead whose loop counter is never advanced (the i++ of line 218
\* left out): the averaging loop accumulates reads forever.
AverageRead_NoIncrement ==
    /\ pc = "avg_loop"
    /\ i < AVERAGE_SAMPLES
    /\ \E r \in LoopReadings : avg' = Vec(avg.x + r.x, avg.y + r.y)
    /\ UNCHANGED <<pc, i, index, running_min, running_max, m_min, m_max,
                   motors, target_heading, target_init, caller, cur_heading,
                   relative_heading, speed, cmd, settled, samples, branch>>

\* Lines 218-223: one iteration, compass.read() returning r.
AverageRead ==
    /\ pc = "avg_loop"
    /\ i < AVERAGE_SAMPLES
    /\ \E r \in LoopReadings : avg' = Vec(avg.x + r.x, avg.y + r.y)
    /\ i' = i + 1
    /\ UNCHANGED <<pc, index, running_min, running_max, m_min, m_max, motors,
                   target_heading, target_init, caller, cur_heading,
                   relative_heading, speed, cmd, settled, samples, branch>>

\* Lines 224-228 after the loop: avg /= 10.0 and heading(avg).  avg holds
\* the sum, which is the average in tenths.
AverageResults == heading(avg, m_min, m_max)

AverageDone == pc = "avg_loop" /\ ~(i < AVERAGE_SAMPLES)

---------------------------------------------------------------------------
(* loop(): lines 118-175. *)

\* Line 121: the static initialiser runs on the first call of loop() only.
LoopEntryFirst ==
    /\ pc = "loop_entry"
    /\ ~target_init
    /\ EnterAverage("static_init")
    /\ UNCHANGED <<index, running_min, running_max, m_min, m_max, motors,
                   target_heading, target_init, cur_heading,
                   relative_heading, speed, cmd, settled, samples, branch>>

\* Line 121, return of averageHeading(): target_heading is initialised;
\* line 124 then calls averageHeading() again.
StaticInitReturn ==
    /\ AverageDone
    /\ caller = "static_init"
    /\ \E h \in AverageResults : target_heading' = h
    /\ target_init' = TRUE
    /\ EnterAverage("top")
    /\ UNCHANGED <<index, running_min, running_max, m_min, m_max, motors,
                   cur_heading, relative_heading, speed, cmd, settled,
                   samples, branch>>

\* Variant of LoopEntryLater: target_heading is not static, so that its
\* initialiser runs on every call.
LoopEntryLater_Reinit ==
    /\ pc = "loop_entry"
    /\ target_init
    /\ EnterAverage("static_init")
    /\ UNCHANGED <<index, running_min, running_max, m_min, m_max, motors,
                   target_heading, target_init, cur_heading,
                   relative_heading, speed, cmd, settled, samples, branch>>

\* Lines 121, 124 on every later call of loop(): the initialiser is
\* skipped and averageHeading() is called.
LoopEntryLater ==
    /\ pc = "loop_entry"
    /\ target_init
    /\ EnterAverage("top")
    /\ UNCHANGED <<index, running_min, running_max, m_min, m_max, motors,
                   target_heading, target_init, cur_heading,
                   relative_heading, speed, cmd, settled, samples, branch>>

\* Line 124, return of averageHeading(): heading = averageHeading().
ReadHeading ==
    /\ AverageDone
    /\ caller = "top"
    /\ \E h \in AverageResults : cur_heading' = h
    /\ pc' = "evaluate"
    /\ UNCHANGED <<index, running_min, running_max, m_min, m_max, motors,
                   target_heading, target_init, caller, i, avg,
                   relative_heading, speed, cmd, settled, samples, branch>>

\* Line 127: relative_heading = relativeHeading(heading, target_heading).
Evaluate ==
    /\ pc = "evaluate"
    /\ relative_heading' = relativeHeading(cur_heading, target_heading)
    /\ pc' = "branch"
    /\ UNCHANGED <<index, running_min, running_max, m_min, m_max, motors,
                   target_heading, target_init, caller, i, avg, cur_heading,
                   speed, cmd, settled, samples, branch>>

\* Lines 137-139: on target; motors.setSpeeds(SPEED, SPEED).
StraightForward ==
    /\ pc = "branch"
    /\ OnTarget(relative_heading)
    /\ motors' = <<SPEED, SPEED>>
    /\ cmd' = "forward"
    /\ settled' = FALSE
    /\ branch' = "STRAIGHT"
    /\ pc' = "straight_delay"
    /\ UNCHANGED <<index, running_min, running_max, m_min, m_max,
                   target_heading, target_init, caller, i, avg, cur_heading,
                   relative_heading, speed, samples>>

\* Line 143: delay(1000).
StraightDelay ==
    /\ pc = "straight_delay"
    /\ settled' = TRUE
    /\ pc' = "straight_stop"
    /\ UNCHANGED <<index, running_min, running_max, m_min, m_max, motors,
                   target_heading, target_init, caller, i, avg, cur_heading,
                   relative_heading, speed, cmd, samples, branch>>

\* Variant of StraightStop: the motors are not stopped before the settle
\* delay.
StraightStop_KeepsDriving ==
    /\ pc = "straight_stop"
    /\ pc' = "settle_delay"
    /\ UNCHANGED <<index, running_min, running_max, m_min, m_max, motors,
                   target_heading, target_init, caller, i, avg, cur_heading,
                   relative_heading, speed, cmd, settled, samples, branch>>

\* Variant of StraightStop: only the left motor is stopped
\* (motors.setLeftSpeed(0) in place of motors.setSpeeds(0, 0)).
StraightStop_LeftOnly ==
    /\ pc = "straight_stop"
    /\ motors' = <<0, motors[2]>>
    /\ cmd' = "stop"
    /\ settled' = FALSE
    /\ pc' = "settle_delay"
    /\ UNCHANGED <<index, running_min, running_max, m_min, m_max,
                   target_heading, target_init, caller, i, avg, cur_heading,
                   relative_heading, speed, samples, branch>>

\* Line 146: motors.setSpeeds(0, 0).
StraightStop ==
    /\ pc = "straight_stop"
    /\ motors' = Stopped
    /\ cmd' = "stop"
    /\ settled' = FALSE
    /\ pc' = "settle_delay"
    /\ UNCHANGED <<index, running_min, running_max, m_min, m_max,
                   target_heading, target_init, caller, i, avg, cur_heading,
                   relative_heading, speed, samples, branch>>

\* Lines 147, 154: delay(100), then the call of averageHeading().
SettleDelay ==
    /\ pc = "settle_delay"
    /\ settled' = TRUE
    /\ EnterAverage("resample")
    /\ UNCHANGED <<index, running_min, running_max, m_min, m_max, motors,
                   target_heading, target_init, cur_heading,
                   relative_heading, speed, cmd, samples, branch>>

\* Line 154: target_heading = (averageHeading() + 90) % 360.
Retarget ==
    /\ AverageDone
    /\ caller = "resample"
    /\ \E h \in AverageResults : target_heading' = NextTarget(h)
    /\ pc' = "loop_exit"
    /\ UNCHANGED <<index, running_min, running_max, m_min, m_max, motors,
                   target_init, caller, i, avg, cur_heading,
                   relative_heading, speed, cmd, settled, samples, branch>>

\* Lines 156-170: off target; the speed is computed and
\* motors.setSpeeds(speed, -speed) is called.
Turn ==
    /\ pc = "branch"
    /\ ~OnTarget(relative_heading)
    /\ \E s \in TurnSpeeds(relative_heading) :
          /\ speed' = s
          /\ motors' = <<s, -s>>
    /\ cmd' = "turn"
    /\ settled' = FALSE
    /\ branch' = "TURNING"
    /\ pc' = "loop_exit"
    /\ UNCHANGED <<index, running_min, running_max, m_min, m_max,
                   target_heading, target_init, caller, i, avg, cur_heading,
                   relative_heading, samples>>

\* Lines 174-175: loop() returns and is called again; its automatic
\* variables and those of averageHeading() are gone.
LoopReturn ==
    /\ pc = "loop_exit"
    /\ pc' = "loop_entry"
    /\ cur_heading' = 0
    /\ relative_heading' = 0
    /\ speed' = 0
    /\ caller' = "none"
    /\ i' = 0
    /\ avg' = ZeroVec
    /\ branch' = "none"
    /\ UNCHANGED <<index, running_min, running_max, m_min, m_max, motors,
                   target_heading, target_init, cmd, settled, samples>>

---------------------------------------------------------------------------
(* The program. *)

Next ==
    \/ WaitButton1
    \/ CalSetLeft
    \/ CalSetRight
    \/ CalSample
    \/ CalStopLeft
    \/ CalStopRight
    \/ CalStore
    \/ WaitButton2
    \/ LoopEntryFirst
    \/ StaticInitReturn
    \/ LoopEntryLater
    \/ AverageRead
    \/ ReadHeading
    \/ Evaluate
    \/ StraightForward
    \/ StraightDelay
    \/ StraightStop
    \/ SettleDelay
    \/ Retarget
    \/ Turn
    \/ LoopReturn

Spec == Init /\ [][Next]_vars

\* Lines 118-175 and 214-229: the steps of loop(), averageHeading included.
ControlStep ==
    \/ LoopEntryFirst
    \/ StaticInitReturn
    \/ LoopEntryLater
    \/ AverageRead
    \/ ReadHeading
    \/ Evaluate
    \/ StraightForward
    \/ StraightDelay
    \/ StraightStop
    \/ SettleDelay
    \/ Retarget
    \/ Turn
    \/ LoopReturn

\* The Arduino core calls loop() again whenever it returns, and every
\* statement of loop() is straight-line code around driver calls and delays
\* that return: a control step that is enabled is eventually taken.  The
\* button presses of setup() are the user's and carry no fairness.
SpecLive == Spec /\ WF_vars(ControlStep)

---------------------------------------------------------------------------
(* heading() on its own: the call of line 228 from line 124, for every     *)
(* averaged vector and every pair of calibration bounds of a small range,  *)
(* and for the worked case v = (100, 0) with bounds -100 and 100.          *)

LowCoords == (-MaxCoord)..0
HighCoords == 0..MaxCoord
Tenths == (-FIX * (MaxCoord + 1))..(FIX * (MaxCoord + 1))

ExampleBounds == [lo |-> Vec(-100, -100), hi |-> Vec(100, 100)]
ExampleVectors ==
    { Vec(FIX * 100, 0), Vec(0, FIX * 100),
      Vec(-FIX * 100, 0), Vec(0, -FIX * 100) }

InitHeading ==
    /\ pc = "avg_loop"
    /\ caller = "top"
    /\ i = AVERAGE_SAMPLES
    /\ \/ /\ avg \in [x : Tenths, y : Tenths]
          /\ m_min \in [x : LowCoords, y : LowCoords]
          /\ m_max \in [x : HighCoords, y : HighCoords]
       \/ /\ avg \in ExampleVectors
          /\ m_min = ExampleBounds.lo
          /\ m_max = ExampleBounds.hi
    /\ index = CALIBRATION_SAMPLES
    /\ running_min = m_min
    /\ running_max = m_max
    /\ motors = Stopped
    /\ target_heading = 0
    /\ target_init = TRUE
    /\ cur_heading = 0
    /\ relative_heading = 0
    /\ speed = 0
    /\ cmd = "stop"
    /\ settled = TRUE
    /\ samples = {}
    /\ branch = "none"

NextHeading == ReadHeading

SpecHeading == InitHeading /\ [][NextHeading]_vars

---------------------------------------------------------------------------
(* The decision of one control cycle on its own: lines 127-170 from every  *)
(* pair of a current and a target heading in [0, 360).                     *)

Headings == 0..(FULL_TURN - 1)

InitTurn ==
    /\ pc = "evaluate"
    /\ cur_heading \in Headings
    /\ target_heading \in Headings
    /\ target_init = TRUE
    /\ caller = "top"
    /\ i = AVERAGE_SAMPLES
    /\ avg = ZeroVec
    /\ index = CALIBRATION_SAMPLES
    /\ running_min = Vec(-FieldMag, -FieldMag)
    /\ running_max = Vec(FieldMag, FieldMag)
    /\ m_min = running_min
    /\ m_max = running_max
    /\ motors = Stopped
    /\ relative_heading = 0
    /\ speed = 0
    /\ cmd = "stop"
    /\ settled = TRUE
    /\ samples = Readings
    /\ branch = "none"

NextTurn ==
    \/ Evaluate
    \/ StraightForward
    \/ Turn

SpecTurn == InitTurn /\ [][NextTurn]_vars

---------------------------------------------------------------------------
(* Every motor command of the program: setup() from the program's initial  *)
(* state, and the commands of one control cycle, lines 127-170, from every *)
(* pair of a current and a target heading in [0, 360).                     *)

InitMotors == Init \/ InitTurn

NextMotors ==
    \/ WaitButton1
    \/ CalSetLeft
    \/ CalSetRight
    \/ CalSample
    \/ CalStopLeft
    \/ CalStopRight
    \/ CalStore
    \/ WaitButton2
    \/ Evaluate
    \/ StraightForward
    \/ StraightDelay
    \/ StraightStop
    \/ Turn

SpecMotors == InitMotors /\ [][NextMotors]_vars

---------------------------------------------------------------------------
(* Properties. *)

NonDegenerate == m_max.x > m_min.x /\ m_max.y > m_min.y

\* averageHeading() is running and has taken at least one reading.
ReadTaken == pc = "avg_loop" /\ i > 0

\* C1 as stated: no magnetometer read of the control loop is taken while
\* the motors are driven by a nonzero command; every read that follows a
\* motor command follows a command of (0, 0) and an elapsed delay.
C1_NoReadWhileDriven ==
    ReadTaken => motors = Stopped /\ settled

\* C1 as amended: no read is taken while the forward command of a STRAIGHT
\* cycle (or the rotation command of the calibration) is in effect; the
\* reads of the static initialiser and the resample reads of a STRAIGHT
\* cycle are taken with the motors commanded to (0, 0) and a delay elapsed;
\* the reads at the top of a cycle are taken either so, or, after a TURNING
\* cycle, while the motors are still driven by its nonzero (speed, -speed).
C1_ReadsAfterStopOrWhileTurning ==
    ReadTaken =>
        /\ cmd \in {"cal_stop", "stop", "turn"}
        /\ motors # <<SPEED, SPEED>>
        /\ caller \in {"static_init", "resample"} =>
               motors = Stopped /\ settled
        /\ cmd \in {"cal_stop", "stop"} => motors = Stopped /\ settled
        /\ cmd = "turn" =>
               /\ caller = "top"
               /\ motors[1] # 0
               /\ motors[2] = -motors[1]

\* Witness of C1: a read at the top of a cycle taken while the motors are
\* driven by the previous cycle's turning command.
C1_Witness ==
    /\ ReadTaken
    /\ caller = "top"
    /\ cmd = "turn"
    /\ motors[1] >= MIN_TURN_SPEED
    /\ ~settled

\* The decision of a cycle has been evaluated (line 127 has run).
Evaluated == pc \in {"branch", "straight_delay", "loop_exit"}

\* C2: for headings in [0, 360), relativeHeading returns r in [-180, 180],
\* congruent to heading_to - heading_from modulo 360: the difference itself
\* when in [-180, 180], minus 360 above 180, plus 360 below -180; and
\* relativeHeading(10, 350) = -20.
C2_RelativeHeadingWraps ==
    Evaluated =>
        LET d == target_heading - cur_heading
            r == relative_heading
        IN  /\ -180 <= r /\ r <= 180
            /\ (r - d) % 360 = 0
            /\ (-180 <= d /\ d <= 180) => r = d
            /\ d > 180 => r = d - 360
            /\ d < -180 => r = d + 360
            /\ (cur_heading = 10 /\ target_heading = 350) => r = -20

\* Witness of C2: the worked case, heading 10 and target 350.
C2_Witness ==
    /\ pc = "branch"
    /\ cur_heading = 10
    /\ target_heading = 350
    /\ relative_heading = -20

\* C3: relativeHeading is antisymmetric on [0, 360), also for headings
\* exactly 180 degrees apart.
C3_RelativeHeadingAntisymmetric ==
    Evaluated =>
        relative_heading = -relativeHeading(target_heading, cur_heading)

\* Witness of C3: headings 180 degrees apart, with result 180.
C3_Witness ==
    /\ pc = "branch"
    /\ target_heading - cur_heading = 180
    /\ relative_heading = 180
    /\ relativeHeading(target_heading, cur_heading) = -180

\* C4: exactly one branch runs in a cycle, chosen by the wrapped
\* difference: STRAIGHT, commanding (SPEED, SPEED), iff |relative| < 5,
\* and TURNING, commanding (speed, -speed), otherwise; target 90 and
\* heading 88 give STRAIGHT, |relative| = 5 gives TURNING.
C4_BranchByThreshold ==
    /\ pc = "branch" => (ENABLED StraightForward) # (ENABLED Turn)
    /\ branch # "none" =>
        /\ relative_heading = relativeHeading(cur_heading, target_heading)
        /\ branch = "STRAIGHT" <=> Abs(relative_heading) < 5
        /\ branch = "TURNING" <=> Abs(relative_heading) >= 5
        /\ branch = "STRAIGHT" => motors = <<200, 200>>
        /\ branch = "TURNING" => motors = <<speed, -speed>>
        /\ (target_heading = 90 /\ cur_heading = 88) => branch = "STRAIGHT"

\* Witness of C4: target 90, heading 88, and the STRAIGHT branch taken.
C4_Witness ==
    /\ branch = "STRAIGHT"
    /\ target_heading = 90
    /\ cur_heading = 88
    /\ relative_heading = 2

\* C5 as stated: a TURNING cycle commands (speed, -speed) with
\* speed = trunc(SPEED * relative / 180) plus 100 in the direction of
\* relative, so that the left speed has the sign of relative.
C5_TurnSpeedProportional ==
    branch = "TURNING" =>
        LET rel == relative_heading
            s   == CDiv(200 * rel, 180) + (IF rel > 0 THEN 100 ELSE -100)
        IN  /\ 5 <= Abs(rel) /\ Abs(rel) <= 180
            /\ motors = <<s, -s>>
            /\ (motors[1] > 0) <=> (rel > 0)

\* C6: target_heading is written at two points only: by the static
\* initialiser, which runs once, on the first cycle, before any evaluation
\* and any motor command of the loop; and by the assignment that ends a
\* STRAIGHT cycle.  A TURNING cycle leaves it unchanged.
C6_TargetWrittenTwice ==
    [][ /\ target_heading' # target_heading =>
               /\ AverageDone
               /\ caller \in {"static_init", "resample"}
               /\ caller = "resample" => branch = "STRAIGHT"
        /\ (AverageDone /\ caller = "static_init") =>
               /\ ~target_init
               /\ target_init'
               /\ cmd = "cal_stop"
               /\ branch = "none"
        /\ target_init => target_init'
        /\ (pc = "loop_entry" /\ caller' = "static_init") => ~target_init
        /\ (branch = "TURNING" \/ branch' = "TURNING") =>
               target_heading' = target_heading
      ]_vars

\* Witness of C6: a STRAIGHT cycle has ended with target_heading rewritten,
\* away from the heading read at its top.
C6_Witness ==
    /\ pc = "loop_exit"
    /\ branch = "STRAIGHT"
    /\ target_init
    /\ target_heading # cur_heading
    /\ cmd = "stop"

\* C7: once initialised, target_heading is in [0, 360); at the end of a
\* STRAIGHT cycle it is (h + 90) mod 360 for a heading h of the vector
\* resampled in that cycle with the motors stopped.
C7_TargetInRange ==
    /\ target_init => target_heading \in 0..359
    /\ (pc = "loop_exit" /\ branch = "STRAIGHT") =>
          /\ caller = "resample"
          /\ i = 10
          /\ motors = Stopped
          /\ \E h \in heading(avg, m_min, m_max) :
                /\ h \in 0..359
                /\ target_heading = (h + 90) % 360

\* Witness of C7: the resampled heading differs from the heading read at
\* the top of the cycle, and the new target wrapped past 360.
C7_Witness ==
    /\ pc = "loop_exit"
    /\ branch = "STRAIGHT"
    /\ target_heading # (cur_heading + 90) % 360
    /\ target_heading < 90
    /\ NonDegenerate

\* The heading has been returned to line 124.
HeadingReturned == pc = "evaluate"

\* C8: with non-degenerate bounds, heading(v) is in [0, 360) for vectors
\* inside and outside the bounds: the rounded angle is in [-180, 180] and
\* 360 is added exactly when it is negative.
C8_HeadingInRange ==
    (HeadingReturned /\ NonDegenerate) =>
        LET ys == Scaled(avg.y, m_min.y, m_max.y)
            xs == Scaled(avg.x, m_min.x, m_max.x)
            a  == RoundAtan2Deg(ys.n * xs.d, xs.n * ys.d)
        IN  /\ 0 <= cur_heading /\ cur_heading < 360
            /\ -180 <= a /\ a <= 180
            /\ cur_heading = IF a < 0 THEN a + 360 ELSE a

\* Witness of C8: a vector outside the bounds, just below the x axis (its
\* angle is negative and rounds to 0), with heading 0.
C8_Witness ==
    /\ HeadingReturned
    /\ NonDegenerate
    /\ avg.x > FIX * m_max.x
    /\ Scaled(avg.y, m_min.y, m_max.y).n < 0
    /\ cur_heading = 0

\* The middle of a calibrated range, in tenths.
Mid(lo, hi) == (FIX * (lo + hi)) \div 2

\* C9: with non-degenerate bounds, v at (max_x, mid_y) gives 0, at
\* (mid_x, max_y) gives 90, at (min_x, mid_y) gives 180 and at
\* (mid_x, min_y) gives 270; v = (100, 0) with bounds -100 and 100 gives 0.
C9_CardinalHeadings ==
    (HeadingReturned /\ NonDegenerate) =>
        LET mx == Mid(m_min.x, m_max.x)
            my == Mid(m_min.y, m_max.y)
        IN  /\ avg = Vec(FIX * m_max.x, my) => cur_heading = 0
            /\ avg = Vec(mx, FIX * m_max.y) => cur_heading = 90
            /\ avg = Vec(FIX * m_min.x, my) => cur_heading = 180
            /\ avg = Vec(mx, FIX * m_min.y) => cur_heading = 270
            /\ ( /\ avg = Vec(1000, 0)
                 /\ m_min = Vec(-100, -100)
                 /\ m_max = Vec(100, 100) ) => cur_heading = 0

\* Witness of C9: the worked case.
C9_Witness ==
    /\ HeadingReturned
    /\ avg = Vec(1000, 0)
    /\ m_min = Vec(-100, -100)
    /\ m_max = Vec(100, 100)
    /\ cur_heading = 0

SetupFinished ==
    pc \notin {"wait_button_1", "cal_left", "cal_right", "cal_loop",
               "cal_stop_right", "cal_store"}

\* C10: when setup() finishes, compass.m_min and compass.m_max are the
\* elementwise minimum and maximum of the 70 calibration readings, so
\* every reading lies within them; and if the readings take two values on
\* each axis the bounds are non-degenerate.
C10_BoundsAreExtremes ==
    SetupFinished =>
        /\ index = 70
        /\ samples # {}
        /\ \A s \in samples :
              /\ m_min.x <= s.x /\ s.x <= m_max.x
              /\ m_min.y <= s.y /\ s.y <= m_max.y
        /\ \E s \in samples : s.x = m_min.x
        /\ \E s \in samples : s.x = m_max.x
        /\ \E s \in samples : s.y = m_min.y
        /\ \E s \in samples : s.y = m_max.y
        /\ Cardinality({s.x : s \in samples}) >= 2 => m_max.x > m_min.x
        /\ Cardinality({s.y : s \in samples}) >= 2 => m_max.y > m_min.y

\* Witness of C10: setup() has finished after readings along all four
\* directions.
C10_Witness ==
    /\ pc = "loop_entry"
    /\ samples = Readings
    /\ m_min = Vec(-FieldMag, -FieldMag)
    /\ m_max = Vec(FieldMag, FieldMag)

\* C11 as stated: whenever heading() is evaluated in the control loop the
\* calibration bounds satisfy max > min on both axes, whatever the sensor
\* read during calibration, so neither division of heading() is by zero.
C11_HeadingNeverDividesByZero ==
    (AverageDone /\ caller \in {"static_init", "top", "resample"}) =>
        /\ m_max.x > m_min.x
        /\ m_max.y > m_min.y

\* C12: compass.m_min and compass.m_max are written only by the store at
\* the end of setup() (lines 110-113); once setup() has finished, no step
\* of a control cycle, in either branch or inside averageHeading, heading
\* or relativeHeading, changes them.
C12_BoundsImmutableAfterSetup ==
    [][/\ (m_min' # m_min \/ m_max' # m_max) => pc = "cal_store"
       /\ SetupFinished => (m_min' = m_min /\ m_max' = m_max)]_vars

\* Both branches have run (a TURNING cycle is ending after a STRAIGHT cycle
\* stopped the motors and rewrote the target) and the bounds are still the
\* extremes stored by setup().
C12_Witness ==
    /\ pc = "loop_exit"
    /\ branch = "TURNING"
    /\ target_heading = QUARTER_TURN
    /\ m_min = running_min
    /\ m_max = running_max
    /\ NonDegenerate

\* The positions of loop(), from its entry to its return.
InControlLoop ==
    pc \in {"loop_entry", "avg_loop", "evaluate", "branch", "straight_delay",
            "straight_stop", "settle_delay", "loop_exit"}

\* An upper bound on the number of steps from the current position to the
\* return of loop(), the longest path being the first call of loop() taking
\* the STRAIGHT branch: three averaging loops of AVERAGE_SAMPLES reads.
StepsLeft ==
    LET resample == (AVERAGE_SAMPLES - i) + 2
        evaluation == 17
        top == (AVERAGE_SAMPLES - i) + 1 + evaluation
        first == (AVERAGE_SAMPLES - i) + 1 + AVERAGE_SAMPLES + 1 + evaluation
    IN  CASE pc = "loop_exit" -> 1
          [] pc = "avg_loop" /\ caller = "resample" -> resample
          [] pc = "settle_delay" -> 13
          [] pc = "straight_stop" -> 14
          [] pc = "straight_delay" -> 15
          [] pc = "branch" -> 16
          [] pc = "evaluate" -> evaluation
          [] pc = "avg_loop" /\ caller = "top" -> top
          [] pc = "avg_loop" /\ caller = "static_init" -> first
          [] pc = "loop_entry" -> AVERAGE_SAMPLES + 1 + AVERAGE_SAMPLES + 1
                                  + evaluation + 1
          [] OTHER -> 0

\* C13: once setup() has finished the controller never stops.  In every
\* state of loop() a control step is enabled; every step but the return of
\* loop() strictly decreases StepsLeft, so a cycle of either branch is over
\* after at most StepsLeft steps; each averaging loop returns after exactly
\* AVERAGE_SAMPLES reads; and, the driver calls returning, every state of
\* loop() leads to the next evaluation of the relative heading.
C13_CyclesCompleteAndRepeat ==
    /\ [](InControlLoop => ENABLED ControlStep)
    /\ [](pc = "avg_loop" => (i \in 0..AVERAGE_SAMPLES /\ (AverageDone <=> i = AVERAGE_SAMPLES)))
    /\ [][/\ (InControlLoop /\ pc # "loop_exit") =>
                (InControlLoop' /\ StepsLeft' < StepsLeft /\ StepsLeft' >= 1)
          /\ pc = "loop_exit" => pc' = "loop_entry"
          /\ (pc = "avg_loop" /\ (pc' # "avg_loop" \/ caller' # caller)) =>
                i = AVERAGE_SAMPLES]_vars
    /\ InControlLoop ~> (pc = "evaluate")
    /\ (pc = "evaluate") ~> (pc = "loop_entry")

\* A TURNING cycle has completed and the following cycle has taken its ten
\* reads and is back at the evaluation of the relative heading.
C13_Witness ==
    /\ pc = "evaluate"
    /\ cmd = "turn"
    /\ i = AVERAGE_SAMPLES
    /\ caller = "top"

\* The forward command of the STRAIGHT branch.
Forward == <<SPEED, SPEED>>

\* C14: a STRAIGHT cycle commands (SPEED, SPEED), holds it for the straight
\* delay, commands (0, 0), waits the settle delay, takes the 10 reads of
\* the resample and only then writes target_heading, in this order.  The
\* resample reads happen with the motors commanded to (0, 0) and settled,
\* and the cycle ends with (0, 0) as the last motor command.
C14_StraightCycleOrder ==
    /\ [](/\ pc = "straight_delay" => (motors = Forward /\ cmd = "forward" /\ ~settled)
          /\ pc = "straight_stop" => (motors = Forward /\ cmd = "forward" /\ settled)
          /\ pc = "settle_delay" => (motors = Stopped /\ cmd = "stop" /\ ~settled)
          /\ (pc = "avg_loop" /\ caller = "resample") =>
                (motors = Stopped /\ cmd = "stop" /\ settled /\ branch = "STRAIGHT")
          /\ (pc = "loop_exit" /\ branch = "STRAIGHT") =>
                (motors = Stopped /\ cmd = "stop" /\ caller = "resample"
                 /\ i = AVERAGE_SAMPLES))
    /\ [][/\ (branch' = "STRAIGHT" /\ branch # "STRAIGHT") =>
                (pc' = "straight_delay" /\ motors' = Forward
                 /\ target_heading' = target_heading)
          /\ pc = "straight_delay" =>
                (pc' = "straight_stop" /\ motors' = motors
                 /\ target_heading' = target_heading)
          /\ pc = "straight_stop" =>
                (pc' = "settle_delay" /\ motors' = Stopped
                 /\ target_heading' = target_heading)
          /\ pc = "settle_delay" =>
                (pc' = "avg_loop" /\ caller' = "resample" /\ i' = 0
                 /\ motors' = motors /\ target_heading' = target_heading)
          /\ (pc = "avg_loop" /\ caller = "resample" /\ i < AVERAGE_SAMPLES) =>
                (pc' = "avg_loop" /\ caller' = "resample" /\ i' = i + 1
                 /\ motors' = motors /\ target_heading' = target_heading)
          /\ (pc = "avg_loop" /\ caller = "resample" /\ i = AVERAGE_SAMPLES) =>
                (pc' = "loop_exit" /\ motors' = motors
                 /\ target_heading' \in {NextTarget(h) : h \in AverageResults})
          /\ (pc = "loop_exit" /\ branch = "STRAIGHT") =>
                (pc' = "loop_entry" /\ motors' = motors
                 /\ target_heading' = target_heading)]_vars

\* A STRAIGHT cycle is at its end: ten resample reads were taken, the
\* target is the resampled heading plus a quarter turn, and the last motor
\* command is (0, 0).
C14_Witness ==
    /\ pc = "loop_exit"
    /\ branch = "STRAIGHT"
    /\ caller = "resample"
    /\ i = AVERAGE_SAMPLES
    /\ cmd = "stop"
    /\ motors = Stopped
    /\ target_heading = QUARTER_TURN
    /\ NonDegenerate

\* The rotation command of the calibration.
Rotation == <<SPEED, -SPEED>>

\* C15: setup() waits for a button press before it commands a motor; the
\* rotation (SPEED, -SPEED) is commanded once, before the first read;
\* CALIBRATION_SAMPLES reads are taken, each with the rotation in effect,
\* the unsigned char index counting them without wrapping; the motors are
\* commanded to zero after the last read and before the bounds are stored;
\* and loop() is entered only from the wait for the second button press.
C15_CalibrationOrder ==
    /\ [](/\ pc = "wait_button_1" =>
                (cmd = "none" /\ motors = Stopped /\ index = 0 /\ samples = {})
          /\ pc \in {"cal_left", "cal_right"} => (index = 0 /\ samples = {})
          /\ pc = "cal_loop" =>
                (/\ motors = Rotation
                 /\ cmd = "cal_rotate"
                 /\ index \in 0..CALIBRATION_SAMPLES
                 /\ (index = 0 <=> samples = {})
                 /\ (index < CALIBRATION_SAMPLES => ENABLED CalSample)
                 /\ (index = CALIBRATION_SAMPLES => ENABLED CalStopLeft))
          /\ pc \in {"cal_stop_right", "cal_store"} =>
                (index = CALIBRATION_SAMPLES /\ cmd = "cal_stop")
          /\ pc = "cal_store" => motors = Stopped
          /\ pc = "wait_button_2" =>
                (/\ motors = Stopped
                 /\ index = CALIBRATION_SAMPLES
                 /\ m_min = running_min
                 /\ m_max = running_max)
          /\ InControlLoop => index = CALIBRATION_SAMPLES)
    /\ [][/\ (cmd = "none" /\ cmd' # "none") => pc = "cal_left"
          /\ pc' = "cal_left" => pc = "wait_button_1"
          /\ (cmd' = "cal_rotate" /\ motors' # motors) =>
                (pc \in {"cal_left", "cal_right"} /\ samples = {})
          /\ pc = "cal_loop" =>
                \/ /\ index < CALIBRATION_SAMPLES
                   /\ pc' = "cal_loop"
                   /\ index' = index + 1
                   /\ index' < UCHAR_MOD
                   /\ motors' = motors
                \/ /\ index = CALIBRATION_SAMPLES
                   /\ pc' = "cal_stop_right"
                   /\ samples' = samples
          /\ (m_min' # m_min \/ m_max' # m_max) =>
                (motors = Stopped /\ samples' = samples)
          /\ samples' # samples => (pc = "cal_loop" /\ motors = Rotation)
          /\ (InControlLoop' /\ ~InControlLoop) => pc = "wait_button_2"]_vars

\* setup() is waiting for the second button press: 70 reads covering every
\* direction were taken, the motors are stopped and the bounds are stored.
C15_Witness ==
    /\ pc = "wait_button_2"
    /\ index = CALIBRATION_SAMPLES
    /\ samples = Readings
    /\ motors = Stopped
    /\ cmd = "cal_stop"
    /\ m_min = running_min
    /\ m_max = running_max

\* C16 as stated: for every relative heading the TURNING branch receives,
\* the product SPEED * relative_heading of line 163 lies within the 16-bit
\* int range [-32768, 32767], and the speed before the minimum is added is
\* the mathematical trunc(200 * relative_heading / 180).
C16_ProductFitsInt ==
    (pc = "loop_exit" /\ branch = "TURNING") =>
        LET product == SPEED * relative_heading
            scaled  == IF speed < 0 THEN speed + MIN_TURN_SPEED
                                    ELSE speed - MIN_TURN_SPEED
        IN  /\ -32768 <= product
            /\ product <= 32767
            /\ scaled = CDiv(200 * relative_heading, 180)

\* C17: every speed commanded to a motor lies within the driver's range
\* [-400, 400].  The commands of setup() and of the STRAIGHT branch are
\* made of SPEED, -SPEED and 0 only, and a TURNING command is
\* (speed, -speed) with 100 <= |speed| <= 300, for every relative heading
\* with 5 <= |relative_heading| <= 180 and for either outcome of the
\* overflowing product.
C17_SpeedsWithinDriverRange ==
    /\ motors[1] \in -400..400
    /\ motors[2] \in -400..400
    /\ cmd \in {"none", "cal_rotate", "cal_stop", "forward", "stop"} =>
          (motors[1] \in {SPEED, -SPEED, 0} /\ motors[2] \in {SPEED, -SPEED, 0})
    /\ cmd = "turn" =>
          /\ motors[2] = -motors[1]
          /\ 100 <= Abs(motors[1])
          /\ Abs(motors[1]) <= 300
    /\ (pc = "loop_exit" /\ branch = "TURNING") =>
          /\ cmd = "turn"
          /\ motors = <<speed, -speed>>
          /\ 5 <= Abs(relative_heading)
          /\ Abs(relative_heading) <= 180

\* The TURNING branch has commanded a half turn whose product
\* 200 * 180 overflowed and wrapped: the speed has the wrong sign and is
\* still within the range.
C17_Witness ==
    /\ pc = "loop_exit"
    /\ cmd = "turn"
    /\ relative_heading = 180
    /\ speed = -264
    /\ motors = <<-264, 264>>

\* The heading whose resample at the end of a STRAIGHT cycle produced the
\* current target: target_heading = (Resampled + 90) % 360.
Resampled == (target_heading + FULL_TURN - QUARTER_TURN) % FULL_TURN

\* C18: with the target a STRAIGHT cycle leaves behind, (h + 90) % 360 for
\* a resampled heading h in [0, 360), a cycle that reads the heading h
\* again has relative heading 90, is TURNING and commands (200, -200); and
\* a cycle can be STRAIGHT only if the heading it reads differs from h by
\* more than 85 degrees.
C18_QuarterTurnAfterStraight ==
    /\ target_heading = NextTarget(Resampled)
    /\ relativeHeading(Resampled, target_heading) = 90
    /\ (pc \in {"branch", "straight_delay", "loop_exit"} /\ cur_heading = Resampled) =>
          /\ relative_heading = 90
          /\ ~OnTarget(relative_heading)
          /\ pc # "straight_delay"
          /\ pc = "loop_exit" =>
                (branch = "TURNING" /\ speed = 200 /\ motors = <<200, -200>>)
    /\ pc = "straight_delay" =>
          /\ branch = "STRAIGHT"
          /\ Abs(relativeHeading(Resampled, cur_heading)) > 85

\* The resampled heading was 300, the target is 30 across the wrap at 360,
\* the heading read is 300 again and the cycle has turned clockwise.
C18_Witness ==
    /\ pc = "loop_exit"
    /\ branch = "TURNING"
    /\ target_heading = 30
    /\ cur_heading = 300
    /\ relative_heading = 90
    /\ motors = <<200, -200>>

====
